---------------------------- MODULE Spec2Model ----------------------------
(***************************************************************************)
(* Payment retry handling of code-screen-1:                                *)
(*   pull_funds -> handle_failed_pull_funds -> handle_retry                *)
(* The persisted state is the payment table, one billing cycle, one        *)
(* customer account and one payment method.  Every caller (Procs) holds an *)
(* in-memory Payment object and runs one handler, one step per await.      *)
(* Instants are ticks; TicksPerDay ticks make a calendar day, and day 0 is *)
(* Sunday 2023-01-01 (local time, no DST).                                  *)
(***************************************************************************)
EXTENDS Integers, Sequences, FiniteSets, TLC

\* ------------------------------------------------------------- bounds ----
\* ticks per calendar day (the resolution of an instant)
TicksPerDay == 2
\* how many ticks the wall clock may advance during a run
MaxTicks == 1
\* how many attempt records the payment table may hold
MaxPayments == 3
\* how many calendar days, from 2024-01-01 on, the date functions are evaluated on
CalcDays == 456
\* the largest days_overdue getTimeBucket is evaluated on
MaxDaysOverdue == 185

\* ---------------------------------------------------------- null values --
\* `code: number | null`
NoCode == -1
\* a nullable id (payment, billing cycle, payment method)
NoId == 0
\* a nullable Date
NoDate == -1

\* ------------------------------------------------------------ the table --
TimeBuckets == {"0-30D", "31-60D", "61-180D", "181D+"}

RetryActions == {"instant", "scheduled_friday", "scheduled_friday_eom", "backoff", "not_possible"}

RETRY_LOGIC_VERSION == 1

NOT_POSSIBLE_CODES == {442, 443, 444, 445, 613, 615, 616, 640, 710}

retryStrategy ==
  [b \in TimeBuckets |->
    CASE b = "0-30D" ->
           [instant |-> {904},
            scheduled_friday |-> {441, 701, 706},
            scheduled_friday_eom |-> {601},
            backoff |-> {903, 440, 603, 604, 605, 606, 607, 777}]
      [] b = "31-60D" ->
           [instant |-> {904},
            scheduled_friday |-> {441, 701, 706},
            scheduled_friday_eom |-> {601},
            backoff |-> {903, 440, 603, 604, 605, 606, 607, 777}]
      [] b = "61-180D" ->
           [instant |-> {904},
            scheduled_friday |-> {},
            scheduled_friday_eom |-> {441, 701, 706},
            backoff |-> {903, 440, 601, 603, 604, 605, 606, 607, 777}]
      [] OTHER ->
           [instant |-> {},
            scheduled_friday |-> {},
            scheduled_friday_eom |-> {},
            backoff |-> {904, 903, 440, 441, 601, 701, 706, 603, 604, 605, 606, 607, 777}]]

\* getTimeBucket with exclusive upper boundaries
getTimeBucket_exclusive(days_overdue) ==
  IF days_overdue < 30 THEN "0-30D"
  ELSE IF days_overdue < 60 THEN "31-60D"
  ELSE IF days_overdue < 180 THEN "61-180D"
  ELSE "181D+"

getTimeBucket(days_overdue) ==
  IF days_overdue <= 30 THEN "0-30D"
  ELSE IF days_overdue <= 60 THEN "31-60D"
  ELSE IF days_overdue <= 180 THEN "61-180D"
  ELSE "181D+"

\* getRetryAction reading the 0-30D column whatever the bucket
getRetryAction_firstColumn(code, timeBucket) ==
  IF code \in NOT_POSSIBLE_CODES THEN "not_possible"
  ELSE LET strategy == retryStrategy["0-30D"] IN
    IF code \in strategy.instant THEN "instant"
    ELSE IF code \in strategy.scheduled_friday THEN "scheduled_friday"
    ELSE IF code \in strategy.scheduled_friday_eom THEN "scheduled_friday_eom"
    ELSE IF code \in strategy.backoff THEN "backoff"
    ELSE "null"

\* getRetryAction without the check of NOT_POSSIBLE_CODES
getRetryAction_noNotPossible(code, timeBucket) ==
  LET strategy == retryStrategy[timeBucket] IN
    IF code \in strategy.instant THEN "instant"
    ELSE IF code \in strategy.scheduled_friday THEN "scheduled_friday"
    ELSE IF code \in strategy.scheduled_friday_eom THEN "scheduled_friday_eom"
    ELSE IF code \in strategy.backoff THEN "backoff"
    ELSE "null"

\* getRetryAction defaulting to backoff for a code it does not know
getRetryAction_defaultBackoff(code, timeBucket) ==
  IF code \in NOT_POSSIBLE_CODES THEN "not_possible"
  ELSE LET strategy == retryStrategy[timeBucket] IN
    IF code \in strategy.instant THEN "instant"
    ELSE IF code \in strategy.scheduled_friday THEN "scheduled_friday"
    ELSE IF code \in strategy.scheduled_friday_eom THEN "scheduled_friday_eom"
    ELSE "backoff"

\* getRetryAction reading the 61-180D strategy for the 181D+ bucket
getRetryAction_farAsPrevious(code, timeBucket) ==
  IF code \in NOT_POSSIBLE_CODES THEN "not_possible"
  ELSE LET strategy == retryStrategy[IF timeBucket = "181D+" THEN "61-180D" ELSE timeBucket] IN
    IF code \in strategy.instant THEN "instant"
    ELSE IF code \in strategy.scheduled_friday THEN "scheduled_friday"
    ELSE IF code \in strategy.scheduled_friday_eom THEN "scheduled_friday_eom"
    ELSE IF code \in strategy.backoff THEN "backoff"
    ELSE "null"

\* getRetryAction without a strategy for the 181D+ bucket
getRetryAction_noFarBucket(code, timeBucket) ==
  IF code \in NOT_POSSIBLE_CODES THEN "not_possible"
  ELSE IF timeBucket = "181D+" THEN "null"
  ELSE LET strategy == retryStrategy[timeBucket] IN
    IF code \in strategy.instant THEN "instant"
    ELSE IF code \in strategy.scheduled_friday THEN "scheduled_friday"
    ELSE IF code \in strategy.scheduled_friday_eom THEN "scheduled_friday_eom"
    ELSE IF code \in strategy.backoff THEN "backoff"
    ELSE "null"

\* "null" is the `null` of RetryAction | null
getRetryAction(code, timeBucket) ==
  IF code \in NOT_POSSIBLE_CODES THEN "not_possible"
  ELSE LET strategy == retryStrategy[timeBucket] IN
    IF code \in strategy.instant THEN "instant"
    ELSE IF code \in strategy.scheduled_friday THEN "scheduled_friday"
    ELSE IF code \in strategy.scheduled_friday_eom THEN "scheduled_friday_eom"
    ELSE IF code \in strategy.backoff THEN "backoff"
    ELSE "null"

CODES_WITH_RETRY_LIMIT_12 == {441, 701, 706}

CODES_WITH_STRIPE_EXCLUSION == {904, 441, 601, 701, 706}

\* ------------------------------------------------------------- calendar --
\* JS Date in local time: an instant t is tick Tod(t) of day DayOf(t)
DayOf(t) == t \div TicksPerDay
Tod(t) == t % TicksPerDay
Midnight(day) == day * TicksPerDay

IsLeap(y) == (y % 4 = 0 /\ y % 100 # 0) \/ y % 400 = 0

\* month is 0-indexed as in JS
DaysInMonth(y, m) ==
  IF m = 1 THEN (IF IsLeap(y) THEN 29 ELSE 28)
  ELSE IF m \in {3, 5, 8, 10} THEN 30
  ELSE 31

RECURSIVE MonthStart(_, _)
\* the day number of the first of month m of year y (day 0 = 2023-01-01)
MonthStart(y, m) ==
  IF y = 2023 /\ m = 0 THEN 0
  ELSE IF m = 0 THEN MonthStart(y - 1, 11) + 31
  ELSE MonthStart(y, m - 1) + DaysInMonth(y, m - 1)

\* new Date(year, month, dayOfMonth): month and day overflow are carried
MakeDay(y, m, d) == MonthStart(y + (m \div 12), m % 12) + d - 1

RECURSIVE CivilFrom(_, _, _)
CivilFrom(day, y, m) ==
  IF day < MonthStart(y, m) + DaysInMonth(y, m)
  THEN [year |-> y, month |-> m, date |-> day - MonthStart(y, m) + 1]
  ELSE IF m = 11 THEN CivilFrom(day, y + 1, 0)
  ELSE CivilFrom(day, y, m + 1)

\* getFullYear / getMonth / getDate of a day number
Civil(day) == CivilFrom(day, 2023, 0)

\* Date.prototype.getDay: 0 = Sunday ... 5 = Friday
getDay(t) == DayOf(t) % 7

\* getNextFriday without the `|| 7`: a Friday maps to itself
getNextFriday_sameDay(from) ==
  LET dayOfWeek == getDay(from)
      daysUntilFriday == (5 - dayOfWeek + 7) % 7
  IN from + daysUntilFriday * TicksPerDay

getNextFriday(from) ==
  LET dayOfWeek == getDay(from)
      r == (5 - dayOfWeek + 7) % 7
      daysUntilFriday == IF r = 0 THEN 7 ELSE r
  IN from + daysUntilFriday * TicksPerDay

getLastFridayOfMonthForDate(year, month) ==
  LET last == MakeDay(year, month + 1, 0)
      dayOfWeek == last % 7
      daysToSubtract == (dayOfWeek + 2) % 7
  IN Midnight(last - daysToSubtract)

\* getLastFridayOfMonth comparing with < : the last Friday's midnight maps to itself
getLastFridayOfMonth_strictCompare(from) ==
  LET c == Civil(DayOf(from))
      lastFridayThisMonth == getLastFridayOfMonthForDate(c.year, c.month)
  IN IF lastFridayThisMonth < from
     THEN LET nextMonth == Civil(MakeDay(c.year, c.month + 1, c.date))
          IN getLastFridayOfMonthForDate(nextMonth.year, nextMonth.month)
     ELSE lastFridayThisMonth

getLastFridayOfMonth(from) ==
  LET c == Civil(DayOf(from))
      lastFridayThisMonth == getLastFridayOfMonthForDate(c.year, c.month)
  IN IF lastFridayThisMonth <= from
     THEN LET nextMonth == Civil(MakeDay(c.year, c.month + 1, c.date))
          IN getLastFridayOfMonthForDate(nextMonth.year, nextMonth.month)
     ELSE lastFridayThisMonth

\* getScheduledDate without the check of a past balance due date
getScheduledDate_keepsPast(type, balanceDueDate, from) ==
  LET fridayDate == IF type = "friday" THEN getNextFriday(from) ELSE getLastFridayOfMonth(from)
  IN IF balanceDueDate = NoDate THEN fridayDate
     ELSE IF fridayDate < balanceDueDate THEN fridayDate
     ELSE balanceDueDate

getScheduledDate(type, balanceDueDate, from) ==
  LET fridayDate == IF type = "friday" THEN getNextFriday(from) ELSE getLastFridayOfMonth(from)
  IN IF balanceDueDate = NoDate THEN fridayDate
     ELSE IF balanceDueDate <= from THEN fridayDate
     ELSE IF fridayDate < balanceDueDate THEN fridayDate
     ELSE balanceDueDate


\* ---------------------------------------------------------------- inputs --
Procs == {1, 2}

\* the failure codes of the rule table (INSTRUCTIONS tables)
RETRYABLE_CODES == {904, 441, 601, 701, 706}
BACKOFF_CODES == {903, 440, 603, 604, 605, 606, 607, 777}
KnownCodes == RETRYABLE_CODES \cup BACKOFF_CODES \cup NOT_POSSIBLE_CODES

\* PaymentStatusCode members that are in no table (NOT_ATTEMPTED, FRAUDULENT, ...)
UnknownCodes == {702, 905}

FailureCodes == KnownCodes \cup UnknownCodes

\* the codes the processor stage of pull_funds reports in the system specification:
\* one per row shape of the table (instant, Friday / Friday EOM, backoff, not possible, unknown)
SysCodes == {904, 701, 903, 444, 702}

\* PaymentStatusCode.INTERNAL_FAILURE
INTERNAL_FAILURE == 903

\* outcomes of the processor stage of pull_funds that are not failures
NonFailureOutcomes == {"SUCCESS", "PROCESSING", "AWAITING_FILE_PROCESSING"}

\* the wall clock at the start: Wednesday 2024-01-17, second tick of the day
Now0 == Midnight(MakeDay(2024, 0, 17)) + 1

\* retry_sequence_nb of the attempt the run starts from
RootSequenceNbs == {0, 8, 9, 12, 13}

\* the starts of the system specification: <<retry_sequence_nb, days since the cycle ended>>
SysRoots == {<<0, 0 - 2>>, <<0, 10>>, <<9, 60>>, <<12, 180>>}

\* days_overdue stored on the billing cycle when handle_retry is called directly
StoredDaysOverdue == {0, 30, 31, 60, 61, 180, 181}

\* ref_date arguments: absent, or the wall clock plus an offset in ticks
RefOffsets == {0, TicksPerDay}
NoRef == -1

BalanceDueDates == {NoDate, Now0 - TicksPerDay, Now0 + TicksPerDay}

\* the age without Math.max(0, ...)
DaysOverdue_noClamp(ref_date, end_date) ==
  LET diff == ref_date - end_date
  IN IF diff >= 0 THEN diff \div TicksPerDay ELSE 0 - ((0 - diff + TicksPerDay - 1) \div TicksPerDay)

\* Math.max(0, Math.floor((ref_date - end_date) / one day))
DaysOverdue(ref_date, end_date) ==
  LET diff == ref_date - end_date
      fl == IF diff >= 0 THEN diff \div TicksPerDay ELSE 0 - ((0 - diff + TicksPerDay - 1) \div TicksPerDay)
  IN IF fl > 0 THEN fl ELSE 0

\* ----------------------------------------------------------------- state --
VARIABLES
  payments,        \* the payment table: payments[id] is the persisted record
  billing_cycle,   \* [end_date, days_overdue] of billing cycle 1
  account,         \* the customer account
  payment_method,  \* [status] of payment method 1
  now,             \* the wall clock (new Date())
  ticks,           \* how far the clock has advanced
  proc,            \* per caller: program counter, arguments, locals, results
  failed_writes,   \* per payment id: how many Payment.update(status: FAILED) were applied
  alerts,          \* notifications dispatched through an alerting collaborator
  calc             \* one evaluation of a pure function: its input, and its result once applied

vars == <<payments, billing_cycle, account, payment_method, now, ticks, proc, failed_writes, alerts, calc>>

NoDays == -1

\* no pure function is being evaluated
NoCalc == [fn |-> "none", kind |-> "none", days_overdue |-> 0, type |-> "null", from |-> NoDate,
           balanceDueDate |-> NoDate, result |-> NoDate, bucket |-> "null",
           code |-> NoCode, action |-> "none"]

NoTrace == [original_code |-> NoCode, retry_reason |-> "null", scheduled_date |-> NoDate,
            time_bucket |-> "null", days_overdue |-> NoDays]

NullPayment ==
  [id |-> NoId, status |-> "null", code |-> NoCode, track |-> "null", date |-> NoDate,
   billing_cycle_id |-> NoId, payment_method_id |-> NoId,
   retry_prev_payment_id |-> NoId, retry_sequence_nb |-> 0, retry_routing_ctx |-> <<>>,
   retry_annotation |-> "null", retry_logic_version |-> 0, retry_trace_data |-> NoTrace]

\* Result<Payment, ApplicationError>
Success(payment) == [ok |-> TRUE, data |-> payment, error |-> "", message |-> ""]
Fail(error, message) == [ok |-> FALSE, data |-> NullPayment, error |-> error, message |-> message]
NoResult == [ok |-> FALSE, data |-> NullPayment, error |-> "none", message |-> ""]

IdleProc ==
  [pc |-> "idle", entry |-> "none", payment |-> NullPayment, code |-> NoCode, ref_date |-> NoRef,
   thrown |-> FALSE, days_overdue |-> NoDays, timeBucket |-> "null", action |-> "null",
   retryDate |-> NoDate, creates |-> 0, retry_arg |-> NullPayment, accountFetched |-> "none",
   fail_result |-> NoResult, retry_result |-> NoResult, result |-> NoResult]

\* the attempt a run starts from: scheduled, never tried
RootPayment(seq, bc) ==
  [NullPayment EXCEPT
     !.id = 1, !.status = "SCHEDULED", !.date = Now0,
     !.track = IF seq = 0 THEN "null" ELSE "BANK_CARD",
     !.billing_cycle_id = bc, !.payment_method_id = 1,
     !.retry_sequence_nb = seq]

InitFrom(Roots) ==
  /\ \E r \in Roots :
       /\ payments = << RootPayment(r[1], 1) >>
       /\ billing_cycle = [end_date |-> Midnight(DayOf(Now0) - r[2]), days_overdue |-> NoDays]
  /\ account = [balance_due_date |-> NoDate, last_failed_payment_date |-> NoDate]
  /\ payment_method = [status |-> "VALID"]
  /\ now = Now0
  /\ ticks = 0
  /\ proc = [p \in Procs |-> IdleProc]
  /\ failed_writes = <<0>>
  /\ alerts = 0
  /\ calc = NoCalc

Init == InitFrom(SysRoots)


\* ------------------------------------------------------------ the callers --
Running(p) == proc[p].pc # "idle"
InFlight == Cardinality({p \in Procs : Running(p)})

\* a caller may start a handler that can create an attempt only while the table has room for it
Room == Len(payments) + InFlight < MaxPayments

RefDates(Offsets) == {NoRef} \cup {now + o : o \in Offsets}

\* pull_funds({payment, ref_date}) on a Payment object read from the table
InvokePullFunds(p, Offsets) ==
  /\ ~Running(p)
  /\ Room
  /\ \E id \in DOMAIN payments, ref \in RefDates(Offsets) :
       proc' = [proc EXCEPT ![p] =
                 [IdleProc EXCEPT !.pc = "pf_track", !.entry = "pull_funds",
                                  !.payment = payments[id], !.ref_date = ref]]
  /\ UNCHANGED <<payments, billing_cycle, account, payment_method, now, ticks, failed_writes, alerts, calc>>

\* handle_failed_pull_funds({payment, code, ref_date}) called directly
InvokeHandleFailed(p, Codes, Offsets) ==
  /\ ~Running(p)
  /\ \E id \in DOMAIN payments, c \in Codes, ref \in RefDates(Offsets) :
       proc' = [proc EXCEPT ![p] =
                 [IdleProc EXCEPT !.pc = "hf_update", !.entry = "handle_failed_pull_funds",
                                  !.payment = payments[id], !.code = c,
                                  !.ref_date = IF ref = NoRef THEN now ELSE ref]]
  /\ UNCHANGED <<payments, billing_cycle, account, payment_method, now, ticks, failed_writes, alerts, calc>>

\* handle_retry({payment}) called directly
InvokeHandleRetry(p) ==
  /\ ~Running(p)
  /\ Room
  /\ \E id \in DOMAIN payments :
       proc' = [proc EXCEPT ![p] =
                 [IdleProc EXCEPT !.pc = "hr_start", !.entry = "handle_retry",
                                  !.payment = payments[id]]]
  /\ UNCHANGED <<payments, billing_cycle, account, payment_method, now, ticks, failed_writes, alerts, calc>>

\* -------------------------------------------------------------- pull_funds --
\* lines 373-388: default the track to BANK_CARD (the update's result is not looked at)
PullFundsTrack(p) ==
  LET q == proc[p] IN
  /\ q.pc = "pf_track"
  /\ IF q.payment.track = "null"
     THEN /\ \E ok \in BOOLEAN :
               payments' = IF ok THEN [payments EXCEPT ![q.payment.id].track = "BANK_CARD"]
                           ELSE payments
          /\ proc' = [proc EXCEPT ![p].pc = "pf_process", ![p].payment.track = "BANK_CARD"]
     ELSE /\ proc' = [proc EXCEPT ![p].pc = "pf_process"]
          /\ UNCHANGED payments
  /\ UNCHANGED <<billing_cycle, account, payment_method, now, ticks, failed_writes, alerts, calc>>

\* pull_funds returning handle_retry's failure instead of the attempt
AfterRetry_surfacesFailure(q, rr) ==
  IF q.entry = "handle_retry"
  THEN [q EXCEPT !.pc = "done", !.retry_result = rr, !.result = rr]
  ELSE IF rr.ok
  THEN [q EXCEPT !.pc = "done", !.retry_result = rr, !.payment = rr.data, !.result = Success(rr.data)]
  ELSE [q EXCEPT !.pc = "done", !.retry_result = rr, !.result = rr]

\* the continuation of pull_funds after handle_retry returned (lines 571-577)
AfterRetry(q, rr) ==
  IF q.entry = "handle_retry"
  THEN [q EXCEPT !.pc = "done", !.retry_result = rr, !.result = rr]
  ELSE LET pay == IF rr.ok THEN rr.data ELSE q.payment
       IN [q EXCEPT !.pc = "done", !.retry_result = rr, !.payment = pay, !.result = Success(pay)]

\* the catch path of pull_funds going on to handle_retry like the failure path
AfterFailed_retryAfterCatch(q, fr) ==
  IF q.entry = "handle_failed_pull_funds"
  THEN [q EXCEPT !.pc = "done", !.fail_result = fr, !.result = fr]
  ELSE LET pay == IF fr.ok THEN fr.data ELSE q.payment IN
       [q EXCEPT !.pc = "hr_start", !.fail_result = fr, !.payment = pay]

\* the continuation after handle_failed_pull_funds returned (lines 565-571, 591-598)
AfterFailed(q, fr) ==
  IF q.entry = "handle_failed_pull_funds"
  THEN [q EXCEPT !.pc = "done", !.fail_result = fr, !.result = fr]
  ELSE LET pay == IF fr.ok THEN fr.data ELSE q.payment IN
       IF q.thrown
       THEN [q EXCEPT !.pc = "done", !.fail_result = fr, !.payment = pay,
                      !.result = Fail("ServerInternalError", "thrown")]
       ELSE [q EXCEPT !.pc = "hr_start", !.fail_result = fr, !.payment = pay]

\* pull_funds calling handle_retry on a failure code before handle_failed_pull_funds
PullFundsProcess_retryFirst(p, Codes) ==
  LET q == proc[p]
      ref == IF q.ref_date = NoRef THEN now ELSE q.ref_date
  IN
  /\ q.pc = "pf_process"
  /\ \E pay \in {q.payment, [payments[q.payment.id] EXCEPT !.track = q.payment.track]} :
       \/ proc' = [proc EXCEPT ![p] = [q EXCEPT !.pc = "done", !.payment = pay,
                                                !.result = Fail("InvarianceViolation", "routing")]]
       \/ proc' = [proc EXCEPT ![p] = [q EXCEPT !.pc = "hf_update", !.payment = pay, !.thrown = TRUE,
                                                !.code = INTERNAL_FAILURE, !.ref_date = ref]]
       \/ \E o \in NonFailureOutcomes :
            proc' = [proc EXCEPT ![p] = [q EXCEPT !.pc = "done", !.payment = pay,
                                                  !.result = Success(pay)]]
       \/ \E c \in Codes :
            proc' = [proc EXCEPT ![p] = [q EXCEPT !.pc = "hr_start",
                                                  !.payment = [pay EXCEPT !.code = c],
                                                  !.code = c, !.ref_date = ref]]
  /\ UNCHANGED <<payments, billing_cycle, account, payment_method, now, ticks, failed_writes, alerts, calc>>

\* lines 390-575: routing and the processor produce an early failure, an exception,
\* a non-failure outcome or a failure code
PullFundsProcess(p, Codes) ==
  LET q == proc[p]
      ref == IF q.ref_date = NoRef THEN now ELSE q.ref_date
  IN
  /\ q.pc = "pf_process"
  /\ \E pay \in {q.payment, [payments[q.payment.id] EXCEPT !.track = q.payment.track]} :
       \/ proc' = [proc EXCEPT ![p] = [q EXCEPT !.pc = "done", !.payment = pay,
                                                !.result = Fail("InvarianceViolation", "routing")]]
       \/ proc' = [proc EXCEPT ![p] = [q EXCEPT !.pc = "hf_update", !.payment = pay, !.thrown = TRUE,
                                                !.code = INTERNAL_FAILURE, !.ref_date = ref]]
       \/ \E o \in NonFailureOutcomes :
            proc' = [proc EXCEPT ![p] = [q EXCEPT !.pc = "done", !.payment = pay,
                                                  !.result = Success(pay)]]
       \/ \E c \in Codes :
            proc' = [proc EXCEPT ![p] = [q EXCEPT !.pc = "hf_update", !.payment = pay,
                                                  !.code = c, !.ref_date = ref]]
  /\ UNCHANGED <<payments, billing_cycle, account, payment_method, now, ticks, failed_writes, alerts, calc>>

\* lines 571 and 578-599: an exception raised while handle_retry runs is caught by pull_funds,
\* which passes the Payment object it holds to handle_failed_pull_funds with INTERNAL_FAILURE
PullFundsCatch(p) ==
  LET q == proc[p] IN
  /\ q.pc = "hr_start"
  /\ q.entry = "pull_funds"
  /\ proc' = [proc EXCEPT ![p] = [q EXCEPT !.pc = "hf_update", !.thrown = TRUE,
                                           !.code = INTERNAL_FAILURE]]
  /\ UNCHANGED <<payments, billing_cycle, account, payment_method, now, ticks, failed_writes, alerts, calc>>

\* ------------------------------------------------ handle_failed_pull_funds --
\* the FAILED update without the idempotency check before it
HandleFailedUpdate_noIdempotency(p) ==
  LET q == proc[p] IN
  /\ q.pc = "hf_update"
  /\ \E ok \in BOOLEAN :
       IF ok
       THEN LET rec == [payments[q.payment.id] EXCEPT !.status = "FAILED", !.code = q.code] IN
            /\ payments' = [payments EXCEPT ![q.payment.id] = rec]
            /\ failed_writes' = [failed_writes EXCEPT ![q.payment.id] = @ + 1]
            /\ proc' = [proc EXCEPT ![p] = [q EXCEPT !.pc = "hf_method", !.payment = rec]]
       ELSE /\ proc' = [proc EXCEPT ![p] =
                          AfterFailed(q, Fail("ServerInternalError", "Failed to update payment"))]
            /\ UNCHANGED <<payments, failed_writes>>
  /\ UNCHANGED <<billing_cycle, account, payment_method, now, ticks, alerts, calc>>

\* a failed FAILED update that is logged and not returned on
HandleFailedUpdate_continuesOnFailure(p) ==
  LET q == proc[p] IN
  /\ q.pc = "hf_update"
  /\ IF q.payment.status = "FAILED"
     THEN /\ proc' = [proc EXCEPT ![p] = AfterFailed(q, Success(q.payment))]
          /\ UNCHANGED <<payments, failed_writes>>
     ELSE \E ok \in BOOLEAN :
            IF ok
            THEN LET rec == [payments[q.payment.id] EXCEPT !.status = "FAILED", !.code = q.code] IN
                 /\ payments' = [payments EXCEPT ![q.payment.id] = rec]
                 /\ failed_writes' = [failed_writes EXCEPT ![q.payment.id] = @ + 1]
                 /\ proc' = [proc EXCEPT ![p] = [q EXCEPT !.pc = "hf_method", !.payment = rec]]
            ELSE /\ proc' = [proc EXCEPT ![p] = [q EXCEPT !.pc = "hf_method"]]
                 /\ UNCHANGED <<payments, failed_writes>>
  /\ UNCHANGED <<billing_cycle, account, payment_method, now, ticks, alerts, calc>>

\* lines 52-86: the idempotency check on the Payment object, then the FAILED update
HandleFailedUpdate(p) ==
  LET q == proc[p] IN
  /\ q.pc = "hf_update"
  /\ IF q.payment.status = "FAILED"
     THEN /\ proc' = [proc EXCEPT ![p] = AfterFailed(q, Success(q.payment))]
          /\ UNCHANGED <<payments, failed_writes>>
     ELSE \E ok \in BOOLEAN :
            IF ok
            THEN LET rec == [payments[q.payment.id] EXCEPT !.status = "FAILED", !.code = q.code] IN
                 /\ payments' = [payments EXCEPT ![q.payment.id] = rec]
                 /\ failed_writes' = [failed_writes EXCEPT ![q.payment.id] = @ + 1]
                 /\ proc' = [proc EXCEPT ![p] = [q EXCEPT !.pc = "hf_method", !.payment = rec]]
            ELSE /\ proc' = [proc EXCEPT ![p] =
                               AfterFailed(q, Fail("ServerInternalError", "Failed to update payment"))]
                 /\ UNCHANGED <<payments, failed_writes>>
  /\ UNCHANGED <<billing_cycle, account, payment_method, now, ticks, alerts, calc>>

\* lines 88-103: a hard decline invalidates the payment method
HandleFailedMethod(p) ==
  LET q == proc[p] IN
  /\ q.pc = "hf_method"
  /\ \E hard \in BOOLEAN :
       payment_method' = IF hard /\ q.payment.payment_method_id # NoId
                         THEN [payment_method EXCEPT !.status = "INVALID"]
                         ELSE payment_method
  /\ proc' = [proc EXCEPT ![p].pc = "hf_account"]
  /\ UNCHANGED <<payments, billing_cycle, account, now, ticks, failed_writes, alerts, calc>>

\* lines 105-123: the account's last-failed metrics
HandleFailedAccount(p) ==
  LET q == proc[p] IN
  /\ q.pc = "hf_account"
  /\ \E ok \in BOOLEAN :
       account' = IF ok THEN [account EXCEPT !.last_failed_payment_date = now] ELSE account
  /\ proc' = [proc EXCEPT ![p].pc = "hf_cycle"]
  /\ UNCHANGED <<payments, billing_cycle, payment_method, now, ticks, failed_writes, alerts, calc>>

\* lines 125-152: days_overdue of the billing cycle from ref_date, then success
HandleFailedCycle(p) ==
  LET q == proc[p] IN
  /\ q.pc = "hf_cycle"
  /\ IF q.payment.billing_cycle_id # NoId
     THEN \E ok \in BOOLEAN :
            billing_cycle' =
              IF ok THEN [billing_cycle EXCEPT
                            !.days_overdue = DaysOverdue(q.ref_date, billing_cycle.end_date)]
              ELSE billing_cycle
     ELSE UNCHANGED billing_cycle
  /\ proc' = [proc EXCEPT ![p] = AfterFailed(q, Success(q.payment))]
  /\ UNCHANGED <<payments, account, payment_method, now, ticks, failed_writes, alerts, calc>>


\* ------------------------------------------------------------ handle_retry --
\* special condition 2 with the limit off by one (>= 12)
ResolveAction_limitOffByOne(code, timeBucket, retry_sequence_nb) ==
  IF timeBucket = "61-180D" /\ code \in {441, 701, 706} /\ retry_sequence_nb >= 12
  THEN "backoff"
  ELSE IF code \in {442, 443, 444, 445, 613, 615, 616, 640, 710} THEN "not_possible"
  ELSE IF code \in retryStrategy[timeBucket].instant THEN "instant"
  ELSE IF code \in retryStrategy[timeBucket].scheduled_friday THEN "scheduled_friday"
  ELSE IF code \in retryStrategy[timeBucket].scheduled_friday_eom THEN "scheduled_friday_eom"
  ELSE IF code \in retryStrategy[timeBucket].backoff THEN "backoff"
  ELSE "null"

\* the table's action without special condition 2
ResolveAction_noLimit(code, timeBucket, retry_sequence_nb) ==
  IF code \in {442, 443, 444, 445, 613, 615, 616, 640, 710} THEN "not_possible"
  ELSE IF code \in retryStrategy[timeBucket].instant THEN "instant"
  ELSE IF code \in retryStrategy[timeBucket].scheduled_friday THEN "scheduled_friday"
  ELSE IF code \in retryStrategy[timeBucket].scheduled_friday_eom THEN "scheduled_friday_eom"
  ELSE IF code \in retryStrategy[timeBucket].backoff THEN "backoff"
  ELSE "null"

\* lines 465-475: the table's action, then special condition 2 (retry limit 12)
ResolveAction(code, timeBucket, retry_sequence_nb) ==
  IF timeBucket = "61-180D" /\ code \in CODES_WITH_RETRY_LIMIT_12 /\ retry_sequence_nb > 12
  THEN "backoff"
  ELSE getRetryAction(code, timeBucket)

\* the backoff branch returning the attempt re-marked as SCHEDULED
BackoffResult_rescheduled(payment) == Success([payment EXCEPT !.status = "SCHEDULED"])

\* lines 505-516: backoff logs a warning and returns the Payment object it was given
BackoffResult(payment) == Success(payment)

\* the successor's track always BANK_CARD
RetryTrack_alwaysBank(code) == "BANK_CARD"

\* line 542
RetryTrack(code) == IF code = 904 THEN "ANY_CARD" ELSE "BANK_CARD"

\* lines 543-551: the predecessor's routing context, plus special condition 1
RetryRoutingCtx(payment, timeBucket, code) ==
  IF timeBucket = "31-60D" /\ code \in CODES_WITH_STRIPE_EXCLUSION /\ payment.retry_sequence_nb > 8
  THEN Append(payment.retry_routing_ctx, "exclude_stripe")
  ELSE payment.retry_routing_ctx

RetryReason(action) ==
  IF action = "instant" THEN "instant_retry"
  ELSE IF action = "scheduled_friday" THEN "scheduled_friday_or_balance_due"
  ELSE "scheduled_friday_eom_or_balance_due"

\* the create input with the predecessor's retry_sequence_nb copied, not incremented
RetryPaymentInput_sameSequence(payment, action, retryDate, timeBucket, days_overdue) ==
  [NullPayment EXCEPT
     !.date = retryDate,
     !.track = IF payment.code = 904 THEN "ANY_CARD" ELSE "BANK_CARD",
     !.status = "SCHEDULED",
     !.payment_method_id = payment.payment_method_id,
     !.billing_cycle_id = payment.billing_cycle_id,
     !.retry_prev_payment_id = payment.id,
     !.retry_sequence_nb = payment.retry_sequence_nb,
     !.retry_routing_ctx = payment.retry_routing_ctx,
     !.retry_annotation = action,
     !.retry_logic_version = 1,
     !.retry_trace_data = [original_code |-> payment.code, retry_reason |-> "instant_retry",
                           scheduled_date |-> retryDate, time_bucket |-> timeBucket,
                           days_overdue |-> days_overdue]]

\* the create input dated like the predecessor
RetryPaymentInput_predecessorDate(payment, action, retryDate, timeBucket, days_overdue) ==
  [NullPayment EXCEPT
     !.date = payment.date,
     !.track = IF payment.code = 904 THEN "ANY_CARD" ELSE "BANK_CARD",
     !.status = "SCHEDULED",
     !.payment_method_id = payment.payment_method_id,
     !.billing_cycle_id = payment.billing_cycle_id,
     !.retry_prev_payment_id = payment.id,
     !.retry_sequence_nb = payment.retry_sequence_nb + 1,
     !.retry_routing_ctx = payment.retry_routing_ctx,
     !.retry_annotation = action,
     !.retry_logic_version = 1,
     !.retry_trace_data = [original_code |-> payment.code, retry_reason |-> "instant_retry",
                           scheduled_date |-> retryDate, time_bucket |-> timeBucket,
                           days_overdue |-> days_overdue]]

\* lines 555-592: the record handed to Payment.create
RetryPaymentInput(payment, action, retryDate, timeBucket, days_overdue) ==
  [NullPayment EXCEPT
     !.date = retryDate,
     !.track = RetryTrack(payment.code),
     !.status = "SCHEDULED",
     !.payment_method_id = payment.payment_method_id,
     !.billing_cycle_id = payment.billing_cycle_id,
     !.retry_prev_payment_id = payment.id,
     !.retry_sequence_nb = payment.retry_sequence_nb + 1,
     !.retry_routing_ctx = RetryRoutingCtx(payment, timeBucket, payment.code),
     !.retry_annotation = action,
     !.retry_logic_version = RETRY_LOGIC_VERSION,
     !.retry_trace_data = [original_code |-> payment.code, retry_reason |-> RetryReason(action),
                           scheduled_date |-> retryDate, time_bucket |-> timeBucket,
                           days_overdue |-> days_overdue]]

\* a failed Payment.create is tried a second time
CreateRetry_retryOnFailure(p, q, retryDate) ==
  LET input == RetryPaymentInput(q.payment, q.action, retryDate, q.timeBucket, q.days_overdue)
      rec == [input EXCEPT !.id = Len(payments) + 1]
  IN \E ok1, ok2 \in BOOLEAN :
       LET q1 == [q EXCEPT !.retryDate = retryDate, !.creates = IF ok1 THEN @ + 1 ELSE @ + 2] IN
       IF ok1 \/ ok2
       THEN /\ payments' = Append(payments, rec)
            /\ failed_writes' = Append(failed_writes, 0)
            /\ proc' = [proc EXCEPT ![p] = AfterRetry(q1, Success(rec))]
       ELSE /\ proc' = [proc EXCEPT ![p] =
                          AfterRetry(q1, Fail("ServerInternalError", "Failed to create retry payment"))]
            /\ UNCHANGED <<payments, failed_writes>>

\* a Payment.create that also marks the predecessor as retried
CreateRetry_marksPredecessor(p, q, retryDate) ==
  LET input == RetryPaymentInput(q.payment, q.action, retryDate, q.timeBucket, q.days_overdue)
      rec == [input EXCEPT !.id = Len(payments) + 1]
      q1 == [q EXCEPT !.retryDate = retryDate, !.creates = @ + 1]
  IN \E ok \in BOOLEAN :
       IF ok
       THEN /\ payments' = Append([payments EXCEPT ![q.payment.id].retry_annotation = "retried"], rec)
            /\ failed_writes' = Append(failed_writes, 0)
            /\ proc' = [proc EXCEPT ![p] = AfterRetry(q1, Success(rec))]
       ELSE /\ proc' = [proc EXCEPT ![p] =
                          AfterRetry(q1, Fail("ServerInternalError", "Failed to create retry payment"))]
            /\ UNCHANGED <<payments, failed_writes>>

\* a Payment.create that reports a failure after the record was stored
CreateRetry_storedThenFailed(p, q, retryDate) ==
  LET input == RetryPaymentInput(q.payment, q.action, retryDate, q.timeBucket, q.days_overdue)
      rec == [input EXCEPT !.id = Len(payments) + 1]
      q1 == [q EXCEPT !.retryDate = retryDate, !.creates = @ + 1]
  IN \E ok \in BOOLEAN :
       /\ payments' = Append(payments, rec)
       /\ failed_writes' = Append(failed_writes, 0)
       /\ proc' = [proc EXCEPT ![p] =
                     IF ok THEN AfterRetry(q1, Success(rec))
                     ELSE AfterRetry(q1, Fail("ServerInternalError", "Failed to create retry payment"))]

\* lines 553-601: Payment.create, which stores the record or fails
CreateRetry(p, q, retryDate) ==
  LET input == RetryPaymentInput(q.payment, q.action, retryDate, q.timeBucket, q.days_overdue)
      rec == [input EXCEPT !.id = Len(payments) + 1]
      q1 == [q EXCEPT !.retryDate = retryDate, !.creates = @ + 1]
  IN \E ok \in BOOLEAN :
       IF ok
       THEN /\ payments' = Append(payments, rec)
            /\ failed_writes' = Append(failed_writes, 0)
            /\ proc' = [proc EXCEPT ![p] = AfterRetry(q1, Success(rec))]
       ELSE /\ proc' = [proc EXCEPT ![p] =
                          AfterRetry(q1, Fail("ServerInternalError", "Failed to create retry payment"))]
            /\ UNCHANGED <<payments, failed_writes>>

\* handle_retry fetching the billing cycle before it looks at the code and the cycle id
HandleRetryStart_fetchFirst(p) ==
  LET q0 == proc[p]
      q == [q0 EXCEPT !.retry_arg = q0.payment]
      code == q.payment.code
  IN
  /\ q.pc = "hr_start"
  /\
       \/ /\ proc' = [proc EXCEPT ![p] =
                        AfterRetry(q, Fail("ServerInternalError", "Could not fetch billing cycle"))]
          /\ UNCHANGED <<payments, failed_writes>>
       \/ LET days_overdue == IF billing_cycle.days_overdue = NoDays THEN 0
                              ELSE billing_cycle.days_overdue
              timeBucket == getTimeBucket(days_overdue)
              action == ResolveAction(code, timeBucket, q.payment.retry_sequence_nb)
              q1 == [q EXCEPT !.days_overdue = days_overdue, !.timeBucket = timeBucket,
                              !.action = action]
          IN
          IF action = "null"
          THEN /\ proc' = [proc EXCEPT ![p] =
                             AfterRetry(q1, Fail("ServerInternalError", "No retry strategy for code"))]
               /\ UNCHANGED <<payments, failed_writes>>
          ELSE IF action = "not_possible"
          THEN /\ proc' = [proc EXCEPT ![p] =
                             AfterRetry(q1, Fail("ServerInternalError", "Retry not possible for code"))]
               /\ UNCHANGED <<payments, failed_writes>>
          ELSE IF action = "backoff"
          THEN /\ proc' = [proc EXCEPT ![p] = AfterRetry(q1, BackoffResult(q1.payment))]
               /\ UNCHANGED <<payments, failed_writes>>
          ELSE IF action = "instant"
          THEN CreateRetry(p, q1, now)
          ELSE /\ proc' = [proc EXCEPT ![p] = [q1 EXCEPT !.pc = "hr_account"]]
               /\ UNCHANGED <<payments, failed_writes>>
  /\ UNCHANGED <<billing_cycle, account, payment_method, now, ticks, alerts, calc>>

\* lines 441-516 and, for an instant retry, 527-601
HandleRetryStart(p) ==
  LET q0 == proc[p]
      q == [q0 EXCEPT !.retry_arg = q0.payment]
      code == q.payment.code
  IN
  /\ q.pc = "hr_start"
  /\ IF code = NoCode
     THEN /\ proc' = [proc EXCEPT ![p] =
                        AfterRetry(q, Fail("ServerInternalError", "Payment has no failure code"))]
          /\ UNCHANGED <<payments, failed_writes>>
     ELSE IF q.payment.billing_cycle_id = NoId
     THEN /\ proc' = [proc EXCEPT ![p] =
                        AfterRetry(q, Fail("ServerInternalError", "Payment has no billing cycle"))]
          /\ UNCHANGED <<payments, failed_writes>>
     ELSE
       \/ /\ proc' = [proc EXCEPT ![p] =
                        AfterRetry(q, Fail("ServerInternalError", "Could not fetch billing cycle"))]
          /\ UNCHANGED <<payments, failed_writes>>
       \/ LET days_overdue == IF billing_cycle.days_overdue = NoDays THEN 0
                              ELSE billing_cycle.days_overdue
              timeBucket == getTimeBucket(days_overdue)
              action == ResolveAction(code, timeBucket, q.payment.retry_sequence_nb)
              q1 == [q EXCEPT !.days_overdue = days_overdue, !.timeBucket = timeBucket,
                              !.action = action]
          IN
          IF action = "null"
          THEN /\ proc' = [proc EXCEPT ![p] =
                             AfterRetry(q1, Fail("ServerInternalError", "No retry strategy for code"))]
               /\ UNCHANGED <<payments, failed_writes>>
          ELSE IF action = "not_possible"
          THEN /\ proc' = [proc EXCEPT ![p] =
                             AfterRetry(q1, Fail("ServerInternalError", "Retry not possible for code"))]
               /\ UNCHANGED <<payments, failed_writes>>
          ELSE IF action = "backoff"
          THEN /\ proc' = [proc EXCEPT ![p] = AfterRetry(q1, BackoffResult(q1.payment))]
               /\ UNCHANGED <<payments, failed_writes>>
          ELSE IF action = "instant"
          THEN CreateRetry(p, q1, now)
          ELSE /\ proc' = [proc EXCEPT ![p] = [q1 EXCEPT !.pc = "hr_account"]]
               /\ UNCHANGED <<payments, failed_writes>>
  /\ UNCHANGED <<billing_cycle, account, payment_method, now, ticks, alerts, calc>>

\* lines 518-601 for the two scheduled actions: the balance due date, the date, the create
HandleRetryAccount(p) ==
  LET q == proc[p] IN
  /\ q.pc = "hr_account"
  /\ \E fetched \in BOOLEAN :
       LET balanceDueDate == IF fetched THEN account.balance_due_date ELSE NoDate
           retryDate == IF q.action = "scheduled_friday"
                        THEN getScheduledDate("friday", balanceDueDate, now)
                        ELSE getScheduledDate("friday_eom", balanceDueDate, now)
       IN CreateRetry(p, [q EXCEPT !.accountFetched = IF fetched THEN "ok" ELSE "failed"], retryDate)
  /\ UNCHANGED <<billing_cycle, account, payment_method, now, ticks, alerts, calc>>

\* the caller drops the result and the Payment object it held
Forget(p) ==
  /\ proc[p].pc = "done"
  /\ proc' = [proc EXCEPT ![p] = IdleProc]
  /\ UNCHANGED <<payments, billing_cycle, account, payment_method, now, ticks, failed_writes, alerts, calc>>

\* ------------------------------------------------------------------ clock --
Tick ==
  /\ ticks < MaxTicks
  /\ now' = now + 1
  /\ ticks' = ticks + 1
  /\ UNCHANGED <<payments, billing_cycle, account, payment_method, proc, failed_writes, alerts, calc>>

\* one caller at a time: pull_funds, handle_failed_pull_funds and handle_retry on any attempt
Next ==
  \/ InvokePullFunds(1, RefOffsets)
  \/ InvokeHandleFailed(1, SysCodes, RefOffsets)
  \/ InvokeHandleRetry(1)
  \/ PullFundsTrack(1)
  \/ PullFundsProcess(1, SysCodes)
  \/ PullFundsCatch(1)
  \/ HandleFailedUpdate(1)
  \/ HandleFailedMethod(1)
  \/ HandleFailedAccount(1)
  \/ HandleFailedCycle(1)
  \/ HandleRetryStart(1)
  \/ HandleRetryAccount(1)
  \/ Forget(1)

Spec == Init /\ [][Next]_vars

\* ------------------------------------------- handle_retry on a failed attempt --
\* the attempt has failed with any code (or carries none), its billing cycle stores any
\* days_overdue, and handle_retry is what callers invoke
InitRetry ==
  /\ \E seq \in RootSequenceNbs, bc \in {NoId, 1}, c \in FailureCodes \cup {NoCode} :
       payments = << [RootPayment(seq, bc) EXCEPT
                        !.status = IF c = NoCode THEN "SCHEDULED" ELSE "FAILED",
                        !.code = c, !.track = "BANK_CARD"] >>
  /\ \E d \in StoredDaysOverdue \cup {NoDays} :
       billing_cycle = [end_date |-> Midnight(DayOf(Now0) - (IF d = NoDays THEN 0 ELSE d)),
                        days_overdue |-> d]
  /\ \E b \in BalanceDueDates :
       account = [balance_due_date |-> b, last_failed_payment_date |-> NoDate]
  /\ payment_method = [status |-> "VALID"]
  /\ now = Now0
  /\ ticks = 0
  /\ proc = [p \in Procs |-> IdleProc]
  /\ failed_writes = <<IF payments[1].status = "FAILED" THEN 1 ELSE 0>>
  /\ alerts = 0
  /\ calc = NoCalc

NextRetry ==
  \/ InvokeHandleRetry(1)
  \/ HandleRetryStart(1)
  \/ HandleRetryAccount(1)
  \/ Forget(1)
  \/ Tick

SpecRetry == InitRetry /\ [][NextRetry]_vars

\* handle_retry on an attempt that failed with any code while its billing cycle is 180 or
\* 181 days overdue (the last day of 61-180D, the first of 181D+)
InitRetryAged ==
  /\ \E seq \in RootSequenceNbs, c \in FailureCodes :
       payments = << [RootPayment(seq, 1) EXCEPT !.status = "FAILED", !.code = c,
                                                 !.track = "BANK_CARD"] >>
  /\ \E d \in {180, 181} :
       billing_cycle = [end_date |-> Midnight(DayOf(Now0) - d), days_overdue |-> d]
  /\ account = [balance_due_date |-> NoDate, last_failed_payment_date |-> NoDate]
  /\ payment_method = [status |-> "VALID"]
  /\ now = Now0
  /\ ticks = 0
  /\ proc = [p \in Procs |-> IdleProc]
  /\ failed_writes = <<1>>
  /\ alerts = 0
  /\ calc = NoCalc

\* an invocation of handle_retry, once started, runs on after each await until it returns
SpecRetryFair ==
  /\ InitRetryAged
  /\ [][NextRetry]_vars
  /\ WF_vars(HandleRetryStart(1))
  /\ WF_vars(HandleRetryAccount(1))

\* ------------------------------------------------- two callers, interleaved --
\* the failure of one attempt is delivered to two callers whose steps interleave at the awaits
RaceCodes == {701}

InitRace == InitFrom({<<0, 10>>})

NextRace ==
  \E p \in Procs :
    \/ InvokePullFunds(p, {0})
    \/ InvokeHandleFailed(p, RaceCodes, {0})
    \/ InvokeHandleRetry(p)
    \/ PullFundsTrack(p)
    \/ PullFundsProcess(p, RaceCodes)
    \/ PullFundsCatch(p)
    \/ HandleFailedUpdate(p)
    \/ HandleFailedMethod(p)
    \/ HandleFailedAccount(p)
    \/ HandleFailedCycle(p)
    \/ HandleRetryStart(p)
    \/ HandleRetryAccount(p)
    \/ Forget(p)

SpecRace == InitRace /\ [][NextRace]_vars


\* ------------------------------------------------- the pure functions alone --
\* one evaluation of getTimeBucket, getNextFriday, getLastFridayOfMonth or getScheduledDate
\* on one input: days_overdue is any stored number, from any instant of CalcDays days
\* (a leap February, a plain one, every month end), the balance due date null or around from
CalcDaysOverdue == (0 - 2) .. MaxDaysOverdue

CalcFroms == {Midnight(MakeDay(2024, 0, 1)) + i : i \in 0 .. (CalcDays * TicksPerDay - 1)}

\* the balance due date relative to from, in ticks
CalcBalanceOffsets ==
  {0 - TicksPerDay, 0, 1, 3 * TicksPerDay, 7 * TicksPerDay, 30 * TicksPerDay, 70 * TicksPerDay}

InitCalc ==
  /\ payments = << RootPayment(0, 1) >>
  /\ billing_cycle = [end_date |-> Midnight(DayOf(Now0) - 10), days_overdue |-> NoDays]
  /\ account = [balance_due_date |-> NoDate, last_failed_payment_date |-> NoDate]
  /\ payment_method = [status |-> "VALID"]
  /\ now = Now0
  /\ ticks = 0
  /\ proc = [p \in Procs |-> IdleProc]
  /\ failed_writes = <<0>>
  /\ alerts = 0
  /\ \/ \E d \in CalcDaysOverdue :
          calc = [NoCalc EXCEPT !.kind = "days", !.days_overdue = d]
     \/ \E c \in FailureCodes, b \in TimeBuckets :
          calc = [NoCalc EXCEPT !.kind = "code", !.code = c, !.bucket = b]
     \/ \E f \in CalcFroms : \E b \in {NoDate} \cup {f + o : o \in CalcBalanceOffsets} :
          calc = [NoCalc EXCEPT !.kind = "date", !.from = f, !.balanceDueDate = b]

CalcTimeBucket ==
  /\ calc.fn = "none" /\ calc.kind = "days"
  /\ calc' = [calc EXCEPT !.fn = "getTimeBucket", !.bucket = getTimeBucket(calc.days_overdue)]
  /\ UNCHANGED <<payments, billing_cycle, account, payment_method, now, ticks, proc, failed_writes, alerts>>

CalcRetryAction ==
  /\ calc.fn = "none" /\ calc.kind = "code"
  /\ calc' = [calc EXCEPT !.fn = "getRetryAction", !.action = getRetryAction(calc.code, calc.bucket)]
  /\ UNCHANGED <<payments, billing_cycle, account, payment_method, now, ticks, proc, failed_writes, alerts>>

CalcNextFriday ==
  /\ calc.fn = "none" /\ calc.kind = "date"
  /\ calc' = [calc EXCEPT !.fn = "getNextFriday", !.result = getNextFriday(calc.from)]
  /\ UNCHANGED <<payments, billing_cycle, account, payment_method, now, ticks, proc, failed_writes, alerts>>

CalcLastFridayOfMonth ==
  /\ calc.fn = "none" /\ calc.kind = "date"
  /\ calc' = [calc EXCEPT !.fn = "getLastFridayOfMonth", !.result = getLastFridayOfMonth(calc.from)]
  /\ UNCHANGED <<payments, billing_cycle, account, payment_method, now, ticks, proc, failed_writes, alerts>>

CalcScheduledDate ==
  /\ calc.fn = "none" /\ calc.kind = "date"
  /\ \E type \in {"friday", "friday_eom"} :
       calc' = [calc EXCEPT !.fn = "getScheduledDate", !.type = type,
                            !.result = getScheduledDate(type, calc.balanceDueDate, calc.from)]
  /\ UNCHANGED <<payments, billing_cycle, account, payment_method, now, ticks, proc, failed_writes, alerts>>

NextCalc ==
  \/ CalcTimeBucket
  \/ CalcRetryAction
  \/ CalcNextFriday
  \/ CalcLastFridayOfMonth
  \/ CalcScheduledDate

SpecCalc == InitCalc /\ [][NextCalc]_vars

\* ================================================================ claims ==
Done(p) == proc[p].pc = "done"

\* handle_retry has returned to caller p; retry_arg is the attempt it was given
RetryReturned(p) == Done(p) /\ proc[p].retry_arg.id # NoId

\* handle_retry has returned after reading the billing cycle and classifying the age
Classified(p) == RetryReturned(p) /\ proc[p].timeBucket # "null"

Successors(id) == {s \in DOMAIN payments : payments[s].retry_prev_payment_id = id}

InTable(rec) == rec.id \in DOMAIN payments /\ payments[rec.id] = rec

HasExclusion(ctx) == \E i \in DOMAIN ctx : ctx[i] = "exclude_stripe"

\* the table of the claim C1, written from its text
TabulatedAction(code, bucket) ==
  IF code = 904
  THEN (IF bucket \in {"0-30D", "31-60D", "61-180D"} THEN "instant" ELSE "backoff")
  ELSE IF code \in {441, 701, 706}
  THEN (IF bucket \in {"0-30D", "31-60D"} THEN "scheduled_friday"
        ELSE IF bucket = "61-180D" THEN "scheduled_friday_eom" ELSE "backoff")
  ELSE (IF bucket \in {"0-30D", "31-60D"} THEN "scheduled_friday_eom" ELSE "backoff")

\* C1: for every retryable code (904, 441, 701, 706, 601) and every bucket, handle_retry
\* resolves the tabulated action unless the retry limit of 12 triggers: a backoff returns
\* the attempt it was given and creates nothing, any other action issues one create whose
\* record, when stored, carries that action.
C1_TabulatedAction ==
  \A p \in Procs :
    LET q == proc[p]
        a == TabulatedAction(q.retry_arg.code, q.timeBucket)
    IN (/\ Classified(p)
        /\ q.retry_arg.code \in {904, 441, 701, 706, 601}
        /\ ~(q.timeBucket = "61-180D" /\ q.retry_arg.code \in {441, 701, 706}
             /\ q.retry_arg.retry_sequence_nb > 12))
       => /\ q.action = a
          /\ IF a = "backoff"
             THEN q.retry_result = Success(q.retry_arg) /\ q.creates = 0
             ELSE /\ q.creates = 1
                  /\ q.retry_result.ok =>
                       /\ InTable(q.retry_result.data)
                       /\ q.retry_result.data.retry_annotation = a

C1_Witness ==
  \E p \in Procs :
    /\ Classified(p)
    /\ proc[p].retry_arg.code = 601
    /\ proc[p].timeBucket = "31-60D"
    /\ proc[p].action = "scheduled_friday_eom"
    /\ proc[p].retry_result.ok

\* C2: for every code of {442, 443, 444, 445, 613, 615, 616, 640, 710}, whatever the bucket
\* and the retry count, handle_retry returns a failure (the retry-not-possible error once
\* the age is classified) and no attempt record is created.
C2_NotPossible ==
  \A p \in Procs :
    LET q == proc[p] IN
    (RetryReturned(p) /\ q.retry_arg.code \in {442, 443, 444, 445, 613, 615, 616, 640, 710})
      => /\ ~q.retry_result.ok
         /\ q.creates = 0
         /\ Successors(q.retry_arg.id) = {}
         /\ Classified(p) =>
              /\ q.action = "not_possible"
              /\ q.retry_result.message = "Retry not possible for code"

C2_Witness ==
  \E p \in Procs :
    /\ Classified(p)
    /\ proc[p].retry_arg.code = 444
    /\ proc[p].timeBucket = "181D+"
    /\ proc[p].retry_arg.retry_sequence_nb = 13
    /\ ~proc[p].retry_result.ok

\* C3 (as claimed): however often the retry resolution runs on an attempt that is FAILED,
\* at most one attempt record has retry_prev_payment_id equal to that attempt.
C3_AtMostOneSuccessor ==
  \A id \in DOMAIN payments : Cardinality(Successors(id)) <= 1

\* C4 (as claimed): when two processings of one attempt interleave, the attempt gets at most
\* one FAILED-status write and at most one successor.
C4_OneWriteOneSuccessor ==
  \A id \in DOMAIN payments :
    /\ failed_writes[id] <= 1
    /\ \A s1, s2 \in Successors(id) : s1 = s2

\* C5: every successor references its predecessor and counts one more retry: the record
\* handle_retry returns has retry_prev_payment_id = the given attempt's id and
\* retry_sequence_nb = the given attempt's + 1, and so has every stored successor.
C5_Lineage ==
  /\ \A s \in DOMAIN payments :
       LET prev == payments[s].retry_prev_payment_id IN
       prev # NoId =>
         /\ prev \in DOMAIN payments
         /\ payments[s].retry_sequence_nb = payments[prev].retry_sequence_nb + 1
  /\ \A p \in Procs :
       (RetryReturned(p) /\ proc[p].creates = 1 /\ proc[p].retry_result.ok) =>
         /\ proc[p].retry_result.data.retry_prev_payment_id = proc[p].retry_arg.id
         /\ proc[p].retry_result.data.retry_sequence_nb = proc[p].retry_arg.retry_sequence_nb + 1

C5_Witness ==
  \E s \in DOMAIN payments :
    /\ payments[s].retry_prev_payment_id = 2
    /\ payments[s].retry_sequence_nb = 11
    /\ payments[2].retry_prev_payment_id = 1

\* C6 (as claimed): the successor pull_funds obtains is SCHEDULED and dated no earlier than
\* the ref_date of the failure handling that produced it.
C6_DateNotBeforeRefDate ==
  \A p \in Procs :
    LET q == proc[p] IN
    (Done(p) /\ q.entry = "pull_funds" /\ q.creates = 1 /\ q.retry_result.ok)
      => /\ q.retry_result.data.status = "SCHEDULED"
         /\ q.retry_result.data.date >= q.ref_date

\* C7: in bucket 61-180D with code 441, 701 or 706, a retry count above 12 forces backoff
\* (the given attempt is returned as it is, nothing is created, no date is computed); a
\* retry count of at most 12 keeps scheduled_friday_eom and one create is issued, whose
\* record is the successor unless the store rejects it.
C7_ForcedBackoff ==
  \A p \in Procs :
    LET q == proc[p] IN
    (Classified(p) /\ q.timeBucket = "61-180D" /\ q.retry_arg.code \in {441, 701, 706})
      => IF q.retry_arg.retry_sequence_nb > 12
         THEN /\ q.action = "backoff"
              /\ q.retry_result = Success(q.retry_arg)
              /\ q.creates = 0
              /\ q.retryDate = NoDate
              /\ Successors(q.retry_arg.id) = {}
              /\ ~HasExclusion(q.retry_result.data.retry_routing_ctx)
         ELSE /\ q.action = "scheduled_friday_eom"
              /\ q.creates = 1
              /\ IF q.retry_result.ok
                 THEN /\ InTable(q.retry_result.data)
                      /\ q.retry_result.data.retry_prev_payment_id = q.retry_arg.id
                      /\ q.retry_result.data.retry_annotation = "scheduled_friday_eom"
                 ELSE q.retry_result.message = "Failed to create retry payment"

C7_Witness ==
  \E p \in Procs :
    /\ Classified(p)
    /\ proc[p].timeBucket = "61-180D"
    /\ proc[p].retry_arg.code = 441
    /\ proc[p].retry_arg.retry_sequence_nb = 13
    /\ proc[p].action = "backoff"

\* C8 (as claimed): a successor's routing context holds 'exclude_stripe' exactly when it was
\* created in bucket 31-60D for a code of {904, 441, 601, 701, 706} with a prior retry
\* count above 8.
C8_ExclusionExactly ==
  \A s \in DOMAIN payments :
    payments[s].retry_prev_payment_id # NoId =>
      (HasExclusion(payments[s].retry_routing_ctx)
        <=> /\ payments[s].retry_trace_data.time_bucket = "31-60D"
            /\ payments[s].retry_trace_data.original_code \in {904, 441, 601, 701, 706}
            /\ payments[s].retry_sequence_nb - 1 > 8)

\* C9: for a code outside the 22 codes of the table, whatever the bucket and the retry
\* count, handle_retry returns a failure and creates nothing; once the age is classified
\* the action is null and the error is the no-strategy error, not the not-possible one.
C9_UnknownCode ==
  \A p \in Procs :
    LET q == proc[p] IN
    (/\ RetryReturned(p)
     /\ q.retry_arg.code # NoCode
     /\ q.retry_arg.code \notin {904, 903, 440, 441, 444, 445, 601, 603, 604, 605, 606, 607, 777,
                                 701, 706, 442, 443, 613, 615, 616, 640, 710})
      => /\ ~q.retry_result.ok
         /\ q.creates = 0
         /\ Successors(q.retry_arg.id) = {}
         /\ Classified(p) =>
              /\ q.action = "null"
              /\ q.retry_result.message = "No retry strategy for code"
              /\ q.retry_result.message # "Retry not possible for code"

C9_Witness ==
  \E p \in Procs :
    /\ Classified(p)
    /\ proc[p].retry_arg.code = 905
    /\ proc[p].timeBucket = "61-180D"
    /\ proc[p].retry_arg.retry_sequence_nb = 13
    /\ proc[p].retry_result.message = "No retry strategy for code"

\* C10 (as claimed): for codes 903, 440, 603-607 and 777, in buckets 0-30D and 31-60D an
\* alert is dispatched and the given attempt is returned without a successor; in buckets
\* 61-180D and 181D+ the action is backoff and no alert is dispatched.
C10_AlertAndBackoff ==
  \A p \in Procs :
    LET q == proc[p] IN
    (Classified(p) /\ q.retry_arg.code \in {903, 440, 603, 604, 605, 606, 607, 777})
      => /\ q.retry_result = Success(q.retry_arg)
         /\ q.creates = 0
         /\ IF q.timeBucket \in {"0-30D", "31-60D"}
            THEN alerts >= 1
            ELSE q.action = "backoff" /\ alerts = 0

\* C11: whenever the resolved action is backoff, by the table or by the retry limit of 12,
\* handle_retry returns success with the failed attempt it was given, every field as it
\* was and as it is stored, and no attempt record is created.
C11_BackoffReturnsOriginal ==
  \A p \in Procs :
    LET q == proc[p] IN
    (Classified(p) /\ q.action = "backoff")
      => /\ q.retry_result.ok
         /\ q.retry_result.data = q.retry_arg
         /\ InTable(q.retry_arg)
         /\ q.creates = 0
         /\ Len(payments) = 1

C11_Witness ==
  \E p \in Procs :
    /\ Classified(p)
    /\ proc[p].action = "backoff"
    /\ proc[p].retry_arg.status = "FAILED"
    /\ proc[p].retry_arg.code = 601
    /\ proc[p].timeBucket = "61-180D"
    /\ proc[p].retry_result.ok

\* C12: the track recorded on a successor follows the table: an instant retry is of code
\* 904 and is ANY_CARD (card), a Friday or Friday-EOM retry is of code 441, 701, 706 or 601
\* and is BANK_CARD (bank, then card); no successor has any other track or code.
C12_TrackMatchesTable ==
  \A s \in DOMAIN payments :
    payments[s].retry_prev_payment_id # NoId =>
      LET code == payments[s].retry_trace_data.original_code
          a == payments[s].retry_annotation
      IN \/ a = "instant" /\ code = 904 /\ payments[s].track = "ANY_CARD"
         \/ /\ a \in {"scheduled_friday", "scheduled_friday_eom"}
            /\ code \in {441, 701, 706, 601}
            /\ payments[s].track = "BANK_CARD"

C12_Witness ==
  \E s \in DOMAIN payments :
    /\ payments[s].retry_prev_payment_id = 1
    /\ payments[s].retry_annotation = "instant"
    /\ payments[s].retry_trace_data.original_code = 904
    /\ payments[s].track = "ANY_CARD"

\* C13: getTimeBucket maps every non-negative days_overdue to one bucket, the upper
\* boundaries inclusive: 0..30 -> 0-30D, 31..60 -> 31-60D, 61..180 -> 61-180D, 181.. -> 181D+.
C13_BucketBoundaries ==
  (calc.fn = "getTimeBucket" /\ calc.days_overdue >= 0)
    => calc.bucket = (IF calc.days_overdue \in 0 .. 30 THEN "0-30D"
                      ELSE IF calc.days_overdue \in 31 .. 60 THEN "31-60D"
                      ELSE IF calc.days_overdue \in 61 .. 180 THEN "61-180D"
                      ELSE "181D+")

C13_Witness ==
  calc.fn = "getTimeBucket" /\ calc.days_overdue = 180 /\ calc.bucket = "61-180D"

\* C14 (as claimed): classifying a negative days_overdue yields an error, never a bucket.
C14_NegativeFails ==
  (calc.fn = "getTimeBucket" /\ calc.days_overdue < 0) => calc.bucket \notin TimeBuckets

\* C15: for every from, getNextFriday(from) is a Friday, strictly after from, on another
\* calendar day than from, and at most 7 days after from.
C15_NextFriday ==
  calc.fn = "getNextFriday"
    => /\ getDay(calc.result) = 5
       /\ calc.result > calc.from
       /\ DayOf(calc.result) # DayOf(calc.from)
       /\ calc.result - calc.from <= 7 * TicksPerDay

C15_Witness ==
  /\ calc.fn = "getNextFriday"
  /\ getDay(calc.from) = 5
  /\ calc.result = calc.from + 7 * TicksPerDay

\* C16: for every from, getLastFridayOfMonth(from) is strictly after from.
C16_LastFridayAfterFrom ==
  calc.fn = "getLastFridayOfMonth" => calc.result > calc.from

C16_Witness ==
  /\ calc.fn = "getLastFridayOfMonth"
  /\ calc.from = Midnight(MakeDay(2024, 0, 26))
  /\ calc.result = Midnight(MakeDay(2024, 1, 23))

\* the last Friday of a month, by its definition: the latest day of the month that is a Friday
LastFridayIn(year, month) ==
  LET days == {MakeDay(year, month, d) : d \in 1 .. DaysInMonth(year, month)}
      fridays == {d \in days : d % 7 = 5}
  IN Midnight(CHOOSE d \in fridays : \A e \in fridays : e <= d)

\* C17 (as claimed): getLastFridayOfMonth(from) is the last Friday of from's month when that
\* is strictly after from, and otherwise the last Friday of the month right after from's.
C17_ThisOrFollowingMonth ==
  calc.fn = "getLastFridayOfMonth"
    => LET c == Civil(DayOf(calc.from))
           this == LastFridayIn(c.year, c.month)
           following == IF c.month = 11 THEN LastFridayIn(c.year + 1, 0)
                        ELSE LastFridayIn(c.year, c.month + 1)
       IN calc.result = (IF this > calc.from THEN this ELSE following)

\* C18: getScheduledDate returns the Friday candidate of its type when the balance due date
\* is null or not strictly after from, and otherwise the earlier of candidate and due date.
C18_EarliestOf ==
  calc.fn = "getScheduledDate"
    => LET c == IF calc.type = "friday" THEN getNextFriday(calc.from)
                ELSE getLastFridayOfMonth(calc.from)
           b == calc.balanceDueDate
       IN calc.result = (IF b = NoDate \/ b <= calc.from THEN c
                         ELSE IF c <= b THEN c ELSE b)

C18_Witness ==
  /\ calc.fn = "getScheduledDate"
  /\ calc.type = "friday_eom"
  /\ calc.balanceDueDate > calc.from
  /\ calc.balanceDueDate < getLastFridayOfMonth(calc.from)
  /\ calc.result = calc.balanceDueDate

\* C19: an invocation of handle_retry has called Payment.create exactly once when it
\* returns with the action instant, scheduled_friday or scheduled_friday_eom, and not at
\* all when the action is backoff or not_possible, the code is unknown, or the code, the
\* billing cycle id or the billing cycle is missing.
C19_CreateOncePerDecision ==
  \A p \in Procs :
    LET q == proc[p] IN
    RetryReturned(p) =>
      IF q.action \in {"instant", "scheduled_friday", "scheduled_friday_eom"}
      THEN q.creates = 1
      ELSE /\ q.creates = 0
           /\ ~(q.retry_result.ok /\ q.retry_result.data # q.retry_arg)
           /\ \/ q.action \in {"backoff", "not_possible"}
              \/ q.action = "null" /\ ~q.retry_result.ok

C19_Witness ==
  \E p \in Procs :
    /\ RetryReturned(p)
    /\ proc[p].action = "scheduled_friday"
    /\ proc[p].creates = 1
    /\ proc[p].retry_result.ok
    /\ Len(payments) = 2

\* C20: a step of handle_retry whose Payment.create does not store the record returns a
\* failure, and a step that returns the create failure leaves the payment table, the
\* billing cycle, the account and the payment method as they were: no successor is added
\* and nothing else is written.
C20_CreateFailureLeavesNothing ==
  [][\A p \in Procs :
       (proc[p].creates = 0 /\ proc'[p].creates = 1) =>
         /\ Len(payments') = Len(payments) => ~proc'[p].retry_result.ok
         /\ ~proc'[p].retry_result.ok =>
              /\ proc'[p].pc = "done"
              /\ payments' = payments
              /\ failed_writes' = failed_writes
              /\ billing_cycle' = billing_cycle
              /\ account' = account
              /\ payment_method' = payment_method]_vars

C20_Witness ==
  \E p \in Procs :
    /\ RetryReturned(p)
    /\ proc[p].creates = 1
    /\ proc[p].retry_result.message = "Failed to create retry payment"
    /\ Successors(proc[p].retry_arg.id) = {}
    /\ Len(payments) = 1

\* C21 (as claimed): when the age of the obligation cannot be obtained (the attempt has no
\* billing cycle, the billing cycle cannot be fetched, or its stored days_overdue is absent)
\* handle_retry returns a failure and creates no successor.
C21_NoDefaultAge ==
  \A p \in Procs :
    LET q == proc[p] IN
    (/\ RetryReturned(p)
     /\ q.retry_arg.code # NoCode
     /\ \/ q.retry_arg.billing_cycle_id = NoId
        \/ q.retry_result.message = "Could not fetch billing cycle"
        \/ billing_cycle.days_overdue = NoDays)
      => ~q.retry_result.ok /\ q.creates = 0

\* C22 (as claimed): when the action is scheduled_friday or scheduled_friday_eom and the
\* customer account cannot be fetched, handle_retry returns a failure and creates no successor.
C22_AccountFetchFailureFails ==
  \A p \in Procs :
    LET q == proc[p] IN
    (/\ RetryReturned(p)
     /\ q.action \in {"scheduled_friday", "scheduled_friday_eom"}
     /\ q.accountFetched = "failed")
      => ~q.retry_result.ok /\ q.creates = 0

\* C23: handle_retry only reads: no step of an invocation changes a stored attempt, the
\* billing cycle, the customer account or the payment method; the only write of a step is
\* one new attempt record appended by Payment.create.
C23_RetryOnlyCreates ==
  [][\A p \in Procs :
       (proc[p].pc \in {"hr_start", "hr_account"} /\ proc'[p] # proc[p]) =>
         /\ billing_cycle' = billing_cycle
         /\ account' = account
         /\ payment_method' = payment_method
         /\ alerts' = alerts
         /\ \A id \in DOMAIN payments : id \in DOMAIN payments' /\ payments'[id] = payments[id]
         /\ Len(payments') \in {Len(payments), Len(payments) + 1}
         /\ Len(payments') = Len(payments) + 1 => proc'[p].creates = proc[p].creates + 1]_vars

C23_Witness ==
  \E p \in Procs :
    /\ RetryReturned(p)
    /\ proc[p].creates = 1
    /\ proc[p].retry_result.ok
    /\ InTable(proc[p].retry_arg)
    /\ Len(payments) = 3

\* C24: handle_failed_pull_funds given an attempt whose status is FAILED, with any code,
\* returns success with that same record and writes nothing: the stored attempt keeps its
\* status and code, and the payment method, the account metrics and the billing cycle's
\* days_overdue are not updated.
C24_FailedIsImmutable ==
  [][\A p \in Procs :
       (proc[p].pc = "hf_update" /\ proc[p].payment.status = "FAILED" /\ proc'[p] # proc[p]) =>
         /\ proc'[p].fail_result = Success(proc[p].payment)
         /\ proc'[p].pc \notin {"hf_method", "hf_account", "hf_cycle"}
         /\ payments' = payments
         /\ failed_writes' = failed_writes
         /\ payment_method' = payment_method
         /\ account' = account
         /\ billing_cycle' = billing_cycle]_vars

C24_Witness ==
  \E p \in Procs :
    /\ Done(p)
    /\ proc[p].entry = "handle_failed_pull_funds"
    /\ proc[p].code = 701
    /\ proc[p].fail_result.ok
    /\ proc[p].fail_result.data.status = "FAILED"
    /\ proc[p].fail_result.data.code = 904
    /\ payments[proc[p].fail_result.data.id].code = 904
    /\ failed_writes[proc[p].fail_result.data.id] = 1

\* C27: handle_failed_pull_funds given an attempt that is not FAILED: when the status update
\* is applied, the attempt is stored and carried on as FAILED with the given code, and that
\* is the record returned at the end; when the update fails, a failure is returned and
\* none of the later writes (payment method, account metrics, days_overdue) is made.
C27_UpdateThenReturn ==
  [][\A p \in Procs :
       /\ (proc[p].pc = "hf_update" /\ proc[p].payment.status # "FAILED" /\ proc'[p] # proc[p]) =>
            IF failed_writes' # failed_writes
            THEN /\ proc'[p].pc = "hf_method"
                 /\ proc'[p].payment = payments'[proc[p].payment.id]
                 /\ proc'[p].payment.status = "FAILED"
                 /\ proc'[p].payment.code = proc[p].code
            ELSE /\ ~proc'[p].fail_result.ok
                 /\ proc'[p].fail_result.message = "Failed to update payment"
                 /\ proc'[p].pc \notin {"hf_method", "hf_account", "hf_cycle"}
                 /\ payments' = payments
                 /\ payment_method' = payment_method
                 /\ account' = account
                 /\ billing_cycle' = billing_cycle
       /\ (proc[p].pc = "hf_cycle" /\ proc'[p] # proc[p]) =>
            /\ proc'[p].fail_result.ok
            /\ proc'[p].fail_result.data.status = "FAILED"
            /\ proc'[p].fail_result.data.code = proc[p].code]_vars

C27_Witness ==
  \E p \in Procs :
    /\ Done(p)
    /\ proc[p].entry = "handle_failed_pull_funds"
    /\ proc[p].code = 444
    /\ proc[p].fail_result.ok
    /\ proc[p].fail_result.data.status = "FAILED"
    /\ proc[p].fail_result.data.code = 444
    /\ payment_method.status = "INVALID"
    /\ billing_cycle.days_overdue = 10

\* C25: the rule table is total over the 22 known codes: in each of the four buckets
\* getRetryAction gives a non-null action, and exactly one: a not-possible code is in no
\* action set of the bucket, any other known code is in exactly one, the one returned.
C25_TableTotal ==
  (/\ calc.fn = "getRetryAction"
   /\ calc.code \in {904, 903, 440, 441, 444, 445, 601, 603, 604, 605, 606, 607, 777,
                     701, 706, 442, 443, 613, 615, 616, 640, 710})
    => LET strategy == retryStrategy[calc.bucket]
           sets == {a \in {"instant", "scheduled_friday", "scheduled_friday_eom", "backoff"} :
                      calc.code \in strategy[a]}
       IN /\ calc.action # "null"
          /\ IF calc.code \in {442, 443, 444, 445, 613, 615, 616, 640, 710}
             THEN sets = {} /\ calc.action = "not_possible"
             ELSE Cardinality(sets) = 1 /\ calc.action \in sets

C25_Witness ==
  /\ calc.fn = "getRetryAction"
  /\ calc.code = 601
  /\ calc.bucket = "181D+"
  /\ calc.action = "backoff"

\* C26: the step of handle_retry that calls Payment.create dates the successor from the
\* instant it reads the clock at: for instant the date is that instant (the same day), for
\* scheduled_friday / scheduled_friday_eom it is getScheduledDate of the matching type from
\* that instant and the balance due date (null when the account is not fetched), which is
\* strictly after it; the stored successor carries that date.
C26_DateFromReferenceInstant ==
  [][\A p \in Procs :
       (proc[p].creates = 0 /\ proc'[p].creates = 1) =>
         LET q == proc'[p]
             d == q.retryDate
             b == IF q.accountFetched = "ok" THEN account.balance_due_date ELSE NoDate
         IN /\ IF q.action = "instant"
               THEN d = now /\ DayOf(d) = DayOf(now)
               ELSE IF q.action = "scheduled_friday"
               THEN d = getScheduledDate("friday", b, now) /\ d > now
               ELSE /\ q.action = "scheduled_friday_eom"
                    /\ d = getScheduledDate("friday_eom", b, now)
                    /\ d > now
            /\ q.retry_result.ok =>
                 /\ q.retry_result.data.date = d
                 /\ payments'[Len(payments')].date = d
                 /\ payments'[Len(payments')].retry_trace_data.scheduled_date = d]_vars

C26_Witness ==
  \E p \in Procs :
    /\ RetryReturned(p)
    /\ proc[p].action = "scheduled_friday"
    /\ proc[p].accountFetched = "ok"
    /\ proc[p].retry_result.ok
    /\ ticks = 1
    /\ proc[p].retry_result.data.date = account.balance_due_date
    /\ account.balance_due_date > now

\* C28: when handle_failed_pull_funds writes days_overdue to the billing cycle, the value is
\* max(0, floor((ref_date - end_date) / one day)), never negative; inside pull_funds the next
\* step is handle_retry, which classifies the stored value into its time bucket.
C28_DaysOverdueWritten ==
  [][\A p \in Procs :
       /\ (proc[p].pc = "hf_cycle" /\ proc'[p] # proc[p]) =>
            LET diff == proc[p].ref_date - billing_cycle.end_date
                expected == IF diff >= 0 THEN diff \div TicksPerDay ELSE 0
            IN \/ billing_cycle' = billing_cycle
               \/ /\ billing_cycle' = [billing_cycle EXCEPT !.days_overdue = expected]
                  /\ billing_cycle'.days_overdue >= 0
                  /\ (proc[p].entry = "pull_funds" /\ ~proc[p].thrown) => proc'[p].pc = "hr_start"
       /\ (/\ proc[p].pc = "hr_start"
           /\ proc[p].entry = "pull_funds"
           /\ proc'[p].timeBucket # "null") =>
            /\ billing_cycle.days_overdue # NoDays => proc'[p].days_overdue = billing_cycle.days_overdue
            /\ proc'[p].days_overdue >= 0
            /\ proc'[p].timeBucket = (IF proc'[p].days_overdue <= 30 THEN "0-30D"
                                      ELSE IF proc'[p].days_overdue <= 60 THEN "31-60D"
                                      ELSE IF proc'[p].days_overdue <= 180 THEN "61-180D"
                                      ELSE "181D+")]_vars

C28_Witness ==
  \E p \in Procs :
    /\ Done(p)
    /\ proc[p].entry = "pull_funds"
    /\ proc[p].ref_date < billing_cycle.end_date
    /\ billing_cycle.days_overdue = 0
    /\ proc[p].days_overdue = 0
    /\ proc[p].timeBucket = "0-30D"

\* C29: inside pull_funds, on a failure code, handle_retry starts only after
\* handle_failed_pull_funds has returned and is called at most once; on SUCCESS, PROCESSING
\* or AWAITING_FILE_PROCESSING neither handler is called.
C29_FailedThenRetryOnce ==
  \A p \in Procs :
    LET q == proc[p] IN
    q.entry = "pull_funds" =>
      /\ (q.pc \in {"hf_update", "hf_method", "hf_account", "hf_cycle"} /\ ~q.thrown)
           => q.fail_result = NoResult /\ q.retry_arg = NullPayment /\ q.retry_result = NoResult
      /\ q.pc \in {"hr_start", "hr_account"}
           => q.fail_result # NoResult /\ q.retry_result = NoResult /\ q.creates = 0
      /\ q.retry_result # NoResult => q.pc = "done" /\ q.fail_result # NoResult
      /\ q.creates <= 1
      /\ (Done(p) /\ q.code = NoCode /\ q.result.ok)
           => /\ q.fail_result = NoResult
              /\ q.retry_result = NoResult
              /\ q.retry_arg = NullPayment
              /\ q.creates = 0

C29_Witness ==
  \E p \in Procs :
    /\ Done(p)
    /\ proc[p].entry = "pull_funds"
    /\ proc[p].code = 701
    /\ proc[p].fail_result.ok
    /\ proc[p].retry_result.ok
    /\ proc[p].creates = 1
    /\ proc[p].retry_result.data.retry_prev_payment_id = proc[p].fail_result.data.id

C31_MissingInputFailsFirst ==
  \A p \in Procs :
    LET q == proc[p] IN
    (RetryReturned(p) /\ (q.retry_arg.code = NoCode \/ q.retry_arg.billing_cycle_id = NoId))
      => /\ ~q.retry_result.ok
         /\ q.retry_result.message = (IF q.retry_arg.code = NoCode THEN "Payment has no failure code"
                                      ELSE "Payment has no billing cycle")
         /\ q.days_overdue = NoDays
         /\ q.timeBucket = "null"
         /\ q.action = "null"
         /\ q.accountFetched = "none"
         /\ q.creates = 0
         /\ Successors(q.retry_arg.id) = {}

C31_Witness ==
  \E p \in Procs :
    /\ RetryReturned(p)
    /\ proc[p].retry_arg.code = 904
    /\ proc[p].retry_arg.billing_cycle_id = NoId
    /\ proc[p].retry_result.message = "Payment has no billing cycle"

\* the number of times 'exclude_stripe' occurs in a routing context
RECURSIVE ExclusionCount(_)
ExclusionCount(ctx) ==
  IF ctx = <<>> THEN 0
  ELSE (IF Head(ctx) = "exclude_stripe" THEN 1 ELSE 0) + ExclusionCount(Tail(ctx))

\* C32 (as claimed): 'exclude_stripe' occurs at most once in the retry_routing_ctx of every
\* attempt, however many consecutive retries in bucket 31-60D add the exclusion.
C32_ExclusionAtMostOnce ==
  \A s \in DOMAIN payments : ExclusionCount(payments[s].retry_routing_ctx) <= 1

\* C33: every successor created in bucket 61-180D for a code of {441, 701, 706} has
\* retry_sequence_nb <= 13, and an invocation of handle_retry in that bucket for such a code
\* on an attempt whose retry_sequence_nb exceeds 12 creates nothing: the chain stops there.
C33_ChainStopsAfter12 ==
  /\ \A s \in DOMAIN payments :
       (/\ payments[s].retry_prev_payment_id # NoId
        /\ payments[s].retry_trace_data.time_bucket = "61-180D"
        /\ payments[s].retry_trace_data.original_code \in {441, 701, 706})
         => payments[s].retry_sequence_nb <= 13
  /\ \A p \in Procs :
       LET q == proc[p] IN
       (/\ Classified(p)
        /\ q.timeBucket = "61-180D"
        /\ q.retry_arg.code \in {441, 701, 706}
        /\ q.retry_arg.retry_sequence_nb > 12)
         => q.creates = 0 /\ q.result.ok /\ q.result.data = q.retry_arg

C33_Witness ==
  \E p \in Procs :
    /\ Classified(p)
    /\ proc[p].entry = "pull_funds"
    /\ proc[p].timeBucket = "61-180D"
    /\ proc[p].retry_arg.id = 2
    /\ proc[p].retry_arg.code = 701
    /\ proc[p].retry_arg.retry_sequence_nb = 13
    /\ payments[2].retry_prev_payment_id = 1
    /\ payments[2].retry_trace_data.time_bucket = "61-180D"
    /\ payments[2].retry_trace_data.original_code = 701
    /\ proc[p].creates = 0
    /\ Successors(2) = {}

\* C34: no successor is ever created in bucket 181D+, for any code and any retry count, and
\* an invocation of handle_retry on a failed attempt whose billing cycle stores a
\* days_overdue above 180 eventually returns without having created a successor: the
\* chain stops there.
C34_NoRetryBeyond180 ==
  /\ [](\A s \in DOMAIN payments :
          payments[s].retry_prev_payment_id # NoId
            => payments[s].retry_trace_data.time_bucket # "181D+")
  /\ [](\A p \in Procs :
          (RetryReturned(p) /\ proc[p].timeBucket = "181D+")
            => proc[p].creates = 0 /\ Successors(proc[p].retry_arg.id) = {})
  /\ \A p \in {1} :
       (proc[p].pc = "hr_start" /\ billing_cycle.days_overdue > 180)
         ~> (Done(p) /\ proc[p].creates = 0 /\ Len(payments) = 1)

C34_Witness ==
  \E p \in Procs :
    /\ RetryReturned(p)
    /\ proc[p].retry_arg.code = 904
    /\ proc[p].retry_arg.retry_sequence_nb = 0
    /\ billing_cycle.days_overdue = 181
    /\ Len(payments) = 1
    /\ proc[p].timeBucket = "181D+"
    /\ proc[p].action = "backoff"
    /\ proc[p].creates = 0

\* C35: once handle_retry has returned inside pull_funds, pull_funds returns success: with
\* handle_retry's record when it succeeded (the successor, or the failed attempt for
\* backoff), and with the attempt handed to handle_retry when it failed (retry not
\* possible, unknown code, missing input, create failure), which is the FAILED record
\* whenever handle_failed_pull_funds returned one.
C35_RetryFailureNotSurfaced ==
  \A p \in Procs :
    LET q == proc[p] IN
    (Done(p) /\ q.entry = "pull_funds" /\ q.retry_result # NoResult)
      => /\ q.result.ok
         /\ IF q.retry_result.ok
            THEN /\ q.result.data = q.retry_result.data
                 /\ IF q.action = "backoff"
                    THEN q.result.data = q.retry_arg
                    ELSE q.result.data.retry_prev_payment_id = q.retry_arg.id
            ELSE /\ q.result.data = q.retry_arg
                 /\ q.fail_result.ok =>
                      q.result.data = q.fail_result.data /\ q.result.data.status = "FAILED"

C35_Witness ==
  \E p \in Procs :
    /\ Done(p)
    /\ proc[p].entry = "pull_funds"
    /\ proc[p].code = 444
    /\ proc[p].retry_result.message = "Retry not possible for code"
    /\ proc[p].result.ok
    /\ proc[p].result.data.status = "FAILED"
    /\ proc[p].result.data.code = 444

=============================================================================
